---- MODULE Spec2Model ----
(***************************************************************************)
(* Model of linking.py: the identifier parser (parse_object_number), the   *)
(* directory resolver (find_matching_files_in_year) and the link           *)
(* aggregator (build_links_like_group); and of catalog_generator.py: the   *)
(* API call with retries (_post_with_retries).                             *)
(*                                                                         *)
(* Text is a sequence of one-character strings.  A spreadsheet cell is a   *)
(* record [kind, s, n]: kind "str" carries the text s, kind "nan" is an    *)
(* absent cell (NaN/None), kind "int" is a numeric cell with value n.      *)
(***************************************************************************)
EXTENDS Integers, Sequences, FiniteSets, TLC

VARIABLES
    pc,          \* which call is pending or finished
    raw,         \* parse_object_number: the argument
    shape,       \* the pieces raw was composed of (input bookkeeping)
    parsed,      \* parse_object_number: the returned value
    images_root, \* the directory tree below the image root
    year,        \* find_matching_files_in_year: argument year
    base_prefix, \* find_matching_files_in_year: argument base_prefix
    found,       \* find_matching_files_in_year: the returned list of paths
    meta,        \* build_links_like_group: the input rows
    rows,        \* build_links_like_group: the LinkedGroup rows returned
    misses,      \* build_links_like_group: the Miss list of the invocation
    calls,       \* the resolver calls made by the invocation, in order
    report,      \* the content of OUT_MISSES_CSV on disk
    listing,     \* find_matching_files_in_year: the order os.listdir gave names in
    server,      \* _post_with_retries: what the successive POSTs are answered with
    post,        \* _post_with_retries: POSTs made and how the call ended
    raised       \* the exception the finished call raised, "none" if it returned

vars == <<pc, raw, shape, parsed, images_root, year, base_prefix, found,
          meta, rows, misses, calls, report, listing, server, post, raised>>

----------------------------------------------------------------------------
(* Bounds of the model *)

\* longest object-group number (g1) the parser inputs carry
MaxGroupLen == 2
\* longest series number (g4) the parser inputs carry
MaxSeriesLen == 2
\* most entries of the year directory the resolver inputs carry
MaxEntries == 2
\* most rows of an input table
MaxRows == 2
\* most writes of the miss report a sequence of invocations is followed for
MaxWrites == 2

----------------------------------------------------------------------------
(* Characters and text *)

\* The characters of the model in ascending code point order.
CharSeq ==
    << "\t", " ", ",", "-", ".", "/",
       "0", "1", "2", "3", "4", "5", "6", "7", "8", "9",
       "A", "B", "E", "G", "J", "K", "P", "X",
       "a", "b", "e", "f", "g", "i", "j", "k", "m", "n", "o", "p", "s", "t",
       "u", "x" >>

Ord(c) == CHOOSE i \in 1..Len(CharSeq) : CharSeq[i] = c

IsDigit(c) == c \in {"0", "1", "2", "3", "4", "5", "6", "7", "8", "9"}

IsSpace(c) == c \in {" ", "\t"}

\* str.lower() on one character
LowerChar(c) ==
    CASE c = "A" -> "a" [] c = "B" -> "b" [] c = "E" -> "e" [] c = "G" -> "g"
      [] c = "J" -> "j" [] c = "K" -> "k" [] c = "P" -> "p" [] c = "X" -> "x"
      [] OTHER -> c

lower(s) == [i \in 1..Len(s) |-> LowerChar(s[i])]

startswith(s, p) == Len(p) <= Len(s) /\ SubSeq(s, 1, Len(p)) = p

Rep(c, n) == [i \in 1..n |-> c]

Max(S) == CHOOSE x \in S : \A y \in S : y <= x

Min(S) == CHOOSE x \in S : \A y \in S : x <= y

\* number of leading whitespace characters of s from position i on
RECURSIVE SpaceRun(_, _)
SpaceRun(s, i) ==
    IF i <= Len(s) /\ IsSpace(s[i]) THEN 1 + SpaceRun(s, i + 1) ELSE 0

\* number of leading decimal digits of s from position i on
RECURSIVE DigitRun(_, _)
DigitRun(s, i) ==
    IF i <= Len(s) /\ IsDigit(s[i]) THEN 1 + DigitRun(s, i + 1) ELSE 0

\* number of trailing whitespace characters of s
RECURSIVE SpaceRunBack(_, _)
SpaceRunBack(s, i) ==
    IF i >= 1 /\ IsSpace(s[i]) THEN 1 + SpaceRunBack(s, i - 1) ELSE 0

\* str.strip()
strip(s) ==
    LET a == SpaceRun(s, 1)
    IN  IF a = Len(s) THEN <<>>
        ELSE SubSeq(s, a + 1, Len(s) - SpaceRunBack(s, Len(s)))

\* lexicographic order of two texts by code point (Python's str <)
RECURSIVE LexLess(_, _)
LexLess(a, b) ==
    IF a = <<>> THEN b # <<>>
    ELSE IF b = <<>> THEN FALSE
    ELSE IF Head(a) = Head(b) THEN LexLess(Tail(a), Tail(b))
    ELSE Ord(Head(a)) < Ord(Head(b))

----------------------------------------------------------------------------
(* OBJ_RE = (\d+)\s*/\s*(\d{4})\s*/\s*(\d{3,4})\s+(\d+), searched.          *)
(* A greedy quantifier tries its longest repetition first and gives back   *)
(* one repetition at a time until the rest of the pattern matches.         *)

NoMatch == [ok |-> FALSE, g1 |-> <<>>, year |-> <<>>, g3 |-> <<>>, g4 |-> <<>>]

\* the quantifier's choice among its candidates [k, m], k a repetition count
\* and m the match of the rest of the pattern after k repetitions: the longest
\* repetition after which the rest matches
Greedy(cands) ==
    LET good == {c \in cands : c.m.ok}
    IN  IF good = {} THEN NoMatch
        ELSE (CHOOSE c \in good : \A d \in good : d.k <= c.k).m

\* (\d+)  at the end of the pattern
ReSeries(s, p) ==
    LET n == DigitRun(s, p)
    IN  IF n >= 1 THEN [NoMatch EXCEPT !.ok = TRUE, !.g4 = SubSeq(s, p, p + n - 1)]
        ELSE NoMatch

\* \s+(\d+)
ReGap(s, p) ==
    Greedy({[k |-> k, m |-> ReSeries(s, p + k)] : k \in 1..SpaceRun(s, p)})

\* the numbers of digits \d{3,4} may take
SeqQuantifier == {3, 4}

\* (\d{3,4})\s+(\d+)
ReSequence(s, p) ==
    Greedy({[k |-> k,
             m |-> [ReGap(s, p + k) EXCEPT !.g3 = SubSeq(s, p, p + k - 1)]] :
            k \in {n \in SeqQuantifier : n <= DigitRun(s, p)}})

\* the number of digits \d{4} takes
YearDigits == 4

\* \s*/\s*  followed by the rest of the pattern: the year part after the
\* first slash (rest = "year"), the sequence part after the second
RECURSIVE ReSlash(_, _, _)

\* (\d{4})\s*/\s*(\d{3,4})\s+(\d+)
ReYear(s, p) ==
    IF DigitRun(s, p) >= YearDigits
    THEN [ReSlash(s, p + YearDigits, "sequence")
             EXCEPT !.year = SubSeq(s, p, p + YearDigits - 1)]
    ELSE NoMatch

ReSlash(s, p, rest) ==
    Greedy({[k |-> k,
             m |-> IF p + k <= Len(s) /\ s[p + k] = "/"
                   THEN Greedy({[k |-> j,
                                 m |-> IF rest = "year"
                                       THEN ReYear(s, p + k + 1 + j)
                                       ELSE ReSequence(s, p + k + 1 + j)] :
                                j \in 0..SpaceRun(s, p + k + 1)})
                   ELSE NoMatch] :
            k \in 0..SpaceRun(s, p)})

\* the whole pattern, anchored at position p
ReMatchAt(s, p) ==
    Greedy({[k |-> k,
             m |-> [ReSlash(s, p + k, "year") EXCEPT !.g1 = SubSeq(s, p, p + k - 1)]] :
            k \in 1..DigitRun(s, p)})

\* OBJ_RE.match(s) in place of search: only a match at the start counts
OBJ_RE_match(s) == IF ReMatchAt(s, 1).ok THEN ReMatchAt(s, 1) ELSE NoMatch

\* the scan of OBJ_RE.search(s) from position p on: the match at the first
\* position that has one
RECURSIVE SearchFrom(_, _)
SearchFrom(s, p) ==
    IF p > Len(s) THEN NoMatch
    ELSE LET m == ReMatchAt(s, p)
         IN  IF m.ok THEN m ELSE SearchFrom(s, p + 1)

\* OBJ_RE.search(s): the match at the leftmost position that has one
OBJ_RE_search(s) == SearchFrom(s, 1)

----------------------------------------------------------------------------
(* parse_object_number *)

None == [ok |-> FALSE, year |-> <<>>, base_prefix |-> <<>>]

StrCell(s) == [kind |-> "str", s |-> s, n |-> 0]

NaN == [kind |-> "nan", s |-> <<>>, n |-> 0]

IntCell(n) == [kind |-> "int", s |-> <<>>, n |-> n]

\* a slip in the format string: the trailing dash is left out
FormatPrefix_no_trailing_dash(g1, y, g3) == g1 \o <<"-">> \o y \o <<"-">> \o g3

\* f"{g1}-{year}-{g3}-"
FormatPrefix(g1, y, g3) == g1 \o <<"-">> \o y \o <<"-">> \o g3 \o <<"-">>

parse_object_number(r) ==
    IF r.kind # "str" THEN None
    ELSE LET m == OBJ_RE_search(r.s)
         IN  IF ~m.ok THEN None
             ELSE [ok |-> TRUE, year |-> m.year,
                   base_prefix |-> FormatPrefix(m.g1, m.year, m.g3)]

----------------------------------------------------------------------------
(* The file system below the image root.  A node is [name, kind, children] *)
(* with kind "file" or "dir"; images_root is [kind, children] with kind    *)
(* "dir", "file" (the root path names a regular file) or "missing".        *)

\* the path text of the image root (IMAGE_DIR)
IMAGE_DIR == <<"B">>

ALLOWED_EXTS ==
    { <<".", "j", "p", "g">>, <<".", "j", "p", "e", "g">>, <<".", "p", "n", "g">>,
      <<".", "t", "i", "f">>, <<".", "t", "i", "f", "f">>, <<".", "b", "m", "p">> }

\* os.path.join(a, b)
join(a, b) ==
    IF b # <<>> /\ Head(b) = "/" THEN b
    ELSE IF a = <<>> \/ a[Len(a)] = "/" THEN a \o b
    ELSE a \o <<"/">> \o b

\* position of the last occurrence of character c in s, 0 if there is none
rfind(s, c) ==
    LET at == {i \in 1..Len(s) : s[i] = c}
    IN  IF at = {} THEN 0 ELSE Max(at)

\* os.path.basename(p)
basename(p) == SubSeq(p, rfind(p, "/") + 1, Len(p))

\* os.path.splitext(name)[1]: the text from the last dot on, unless only dots
\* precede that dot in the last path component
splitext_ext(name) ==
    LET sepIndex == rfind(name, "/")
        dotIndex == rfind(name, ".")
    IN  IF dotIndex > sepIndex
           /\ \E i \in (sepIndex + 1)..(dotIndex - 1) : name[i] # "."
        THEN SubSeq(name, dotIndex, Len(name))
        ELSE <<>>

\* the components of a relative path text
RECURSIVE Components(_)
Components(p) ==
    LET cut == {i \in 1..Len(p) : p[i] = "/"}
    IN  IF cut = {} THEN <<p>>
        ELSE <<SubSeq(p, 1, Min(cut) - 1)>>
             \o Components(SubSeq(p, Min(cut) + 1, Len(p)))

Missing == [name |-> <<>>, kind |-> "missing", children |-> {}]

\* the node the components lead to from node n
RECURSIVE Walk(_, _)
Walk(n, comps) ==
    IF comps = <<>> THEN n
    ELSE IF n.kind # "dir" THEN Missing
    ELSE LET hit == {c \in n.children : c.name = Head(comps)}
         IN  IF hit = {} THEN Missing
             ELSE Walk(CHOOSE c \in hit : TRUE, Tail(comps))

\* the node path text p names in file system fs
Stat(fs, p) ==
    LET top == [name |-> IMAGE_DIR, kind |-> fs.kind, children |-> fs.children]
    IN  IF p = IMAGE_DIR THEN top
        ELSE IF startswith(p, IMAGE_DIR \o <<"/">>)
        THEN Walk(top, Components(SubSeq(p, Len(IMAGE_DIR) + 2, Len(p))))
        ELSE Missing

isdir(fs, p) == Stat(fs, p).kind = "dir"

isfile(fs, p) == Stat(fs, p).kind = "file"

\* the orders os.listdir may yield the names of a set of nodes in
ListingsOf(nodes) ==
    LET names == {c.name : c \in nodes}
        n == Cardinality(names)
    IN  {l \in [1..n -> names] : \A i, j \in 1..n : l[i] = l[j] => i = j}

\* the directories directly below the image root (the year directories)
YearDirs(fs) ==
    IF fs.kind = "dir" THEN {c \in fs.children : c.kind = "dir"} ELSE {}

\* what os.listdir may yield in one run: for each year directory's path one
\* order of its entries
Listings(fs) ==
    LET paths == {join(IMAGE_DIR, c.name) : c \in YearDirs(fs)}
        all == UNION {ListingsOf(c.children) : c \in YearDirs(fs)}
    IN  {ls \in [paths -> all] :
            \A q \in paths : ls[q] \in ListingsOf(Stat(fs, q).children)}

\* os.listdir(p), ls the orders the listings come in; on a path that is no
\* directory the call raises
listdir(fs, ls, p) ==
    LET n == Stat(fs, p)
    IN  IF n.kind = "dir"
        THEN [raised |-> "none",
              names |-> IF p \in DOMAIN ls THEN ls[p]
                        ELSE CHOOSE l \in ListingsOf(n.children) : TRUE]
        ELSE IF n.kind = "file"
        THEN [raised |-> "NotADirectoryError", names |-> <<>>]
        ELSE [raised |-> "FileNotFoundError", names |-> <<>>]

\* sorted() left out: the list stays in the order the names were listed in
listing_order(seq) == seq

\* sorted(seq) for a list of texts
RECURSIVE sorted(_)
sorted(seq) ==
    IF seq = <<>> THEN <<>>
    ELSE LET rest == sorted(Tail(seq))
             k == Cardinality({i \in 1..Len(rest) : ~LexLess(Head(seq), rest[i])})
         IN  SubSeq(rest, 1, k) \o <<Head(seq)>> \o SubSeq(rest, k + 1, Len(rest))

----------------------------------------------------------------------------
(* find_matching_files_in_year *)

\* the guard of lines 105-106 left out: the listing is always attempted
year_dir_unguarded(fs, year_dir) == TRUE

\* the guard of lines 105-106: the year directory is listed only if it is one
year_dir_listable(fs, year_dir) == isdir(fs, year_dir)

\* the isfile test of line 112 left out
file_qualifies_any_kind(fs, year_dir, name, base_lower) ==
    /\ lower(splitext_ext(name)) \in ALLOWED_EXTS
    /\ startswith(lower(name), base_lower)

\* the test of lines 112-117 on one listed name
file_qualifies(fs, year_dir, name, base_lower) ==
    /\ isfile(fs, join(year_dir, name))
    /\ lower(splitext_ext(name)) \in ALLOWED_EXTS
    /\ startswith(lower(name), base_lower)

\* the loop of lines 110-118 over the listed names
RECURSIVE collect(_, _, _, _)
collect(fs, year_dir, names, base_lower) ==
    IF names = <<>> THEN <<>>
    ELSE (IF file_qualifies(fs, year_dir, Head(names), base_lower)
          THEN <<join(year_dir, Head(names))>> ELSE <<>>)
         \o collect(fs, year_dir, Tail(names), base_lower)

\* returns [raised, out]: out is the returned list when raised = "none"
find_matching_files_in_year(fs, ls, y, bp) ==
    LET year_dir == join(IMAGE_DIR, y)
    IN  IF ~year_dir_listable(fs, year_dir) THEN [raised |-> "none", out |-> <<>>]
        ELSE LET l == listdir(fs, ls, year_dir)
             IN  IF l.raised # "none" THEN [raised |-> l.raised, out |-> <<>>]
                 ELSE [raised |-> "none",
                       out |-> sorted(collect(fs, year_dir, l.names, lower(bp)))]

----------------------------------------------------------------------------
(* build_links_like_group *)

\* a row of the input table
Row(cell, src) == [obj_id_raw |-> cell, source_file |-> src]

\* Series.dropna()
RECURSIVE dropna(_)
dropna(col) ==
    IF col = <<>> THEN <<>>
    ELSE (IF Head(col).kind = "nan" THEN <<>> ELSE <<Head(col)>>) \o dropna(Tail(col))

\* lambda x: x.strip() if isinstance(x, str) else x
strip_if_str(x) == IF x.kind = "str" THEN StrCell(strip(x.s)) ELSE x

\* drop_duplicates() left out: every value is kept
keep_duplicates(col) == col

\* Series.drop_duplicates(): the first occurrence of every value is kept
RECURSIVE drop_duplicates(_)
drop_duplicates(col) ==
    IF col = <<>> THEN <<>>
    ELSE LET init == drop_duplicates(SubSeq(col, 1, Len(col) - 1))
             last == col[Len(col)]
         IN  IF \E i \in 1..Len(init) : init[i] = last THEN init
             ELSE Append(init, last)

\* lines 135-140
series_of(m) ==
    LET kept == dropna([k \in 1..Len(m) |-> m[k].obj_id_raw])
    IN  drop_duplicates([i \in 1..Len(kept) |-> strip_if_str(kept[i])])

\* (parsed["year"], parsed["base_prefix"].lower())
key_of(p) == <<p.year, lower(p.base_prefix)>>

\* setdefault without the add: only the first label of a key is kept
setdefault_only(map, key, src) ==
    IF key \in DOMAIN map THEN map
    ELSE [k \in DOMAIN map \cup {key} |-> IF k = key THEN {src} ELSE map[k]]

\* src_map.setdefault(key, set()).add(src)
setdefault_add(map, key, src) ==
    IF key \in DOMAIN map THEN [map EXCEPT ![key] = @ \cup {src}]
    ELSE [k \in DOMAIN map \cup {key} |-> IF k = key THEN {src} ELSE map[k]]

\* lines 147-153: the pass over every row of the table
RECURSIVE src_map_of(_)
src_map_of(m) ==
    IF m = <<>> THEN [k \in {} |-> {}]
    ELSE LET before == src_map_of(SubSeq(m, 1, Len(m) - 1))
             r == m[Len(m)]
             p == IF r.obj_id_raw.kind = "str" THEN parse_object_number(r.obj_id_raw)
                  ELSE None
         IN  IF ~p.ok THEN before
             ELSE setdefault_add(before, key_of(p), r.source_file)

\* sorted(S) for a set of texts
RECURSIVE sorted_set(_)
sorted_set(S) ==
    IF S = {} THEN <<>>
    ELSE LET least == CHOOSE x \in S : \A y \in S : x = y \/ LexLess(x, y)
         IN  <<least>> \o sorted_set(S \ {least})

\* ", ".join(seq)
RECURSIVE join_comma(_)
join_comma(seq) ==
    IF seq = <<>> THEN <<>>
    ELSE IF Len(seq) = 1 THEN seq[1]
    ELSE seq[1] \o <<",", " ">> \o join_comma(Tail(seq))

\* line 158
parse_miss(r) ==
    [obj_id_raw |-> r, year |-> <<>>, base_prefix |-> <<>>,
     reason |-> "Keine Objektnummer"]

\* line 170
resolve_miss(r, p) ==
    [obj_id_raw |-> r, year |-> p.year, base_prefix |-> p.base_prefix,
     reason |-> "Keine Dateien"]

\* lines 174-183
linked_row(r, p, matches, smap) ==
    [obj_id_raw |-> r, year |-> p.year, base_prefix |-> p.base_prefix,
     images |-> [i \in 1..Len(matches) |-> basename(matches[i])],
     image_count |-> Len(matches),
     source_files |->
        join_comma(sorted_set(IF key_of(p) \in DOMAIN smap THEN smap[key_of(p)]
                              ELSE {}))]

\* the test of line 164 left out: no key counts as handled
never_seen(seen_prefixes, key) == FALSE

\* line 164: the key was handled earlier in this run
already_seen(seen_prefixes, key) == key \in seen_prefixes

\* line 166 left out: the key is not remembered
seen_add_forgets(seen_prefixes, key) == seen_prefixes

\* line 166
seen_add(seen_prefixes, key) == seen_prefixes \cup {key}

\* the test of line 169 left out: an empty result is linked like any other
never_no_matches(matches) == FALSE

\* line 169: the resolver returned nothing
no_matches(matches) == matches = <<>>

\* the continue of line 165 replaced by an overwrite: the later value r of a
\* key already handled becomes the identifier of the key's row or Miss
later_row_replaces(st, r, p) ==
    [st EXCEPT
       !.rows = [k \in 1..Len(@) |->
                   IF key_of(@[k]) = key_of(p) THEN [@[k] EXCEPT !.obj_id_raw = r]
                   ELSE @[k]],
       !.misses = [k \in 1..Len(@) |->
                     IF @[k].reason = "Keine Dateien" /\ key_of(@[k]) = key_of(p)
                     THEN [@[k] EXCEPT !.obj_id_raw = r] ELSE @[k]]]

\* line 165: a later value of a key already handled changes nothing
continue_seen(st, r, p) == st

\* rows.append(x) / misses.append(x) turned round: x is put in front
insert_front(list, x) == <<x>> \o list

\* rows.append(x), misses.append(x)
append(list, x) == Append(list, x)

\* one iteration of the loop of lines 155-183 on the value r; st holds rows,
\* misses, seen_prefixes, the resolver calls made and the exception raised
loop_body(st, r, fs, ls, smap) ==
    LET p == parse_object_number(r)
    IN  IF ~p.ok THEN [st EXCEPT !.misses = append(@, parse_miss(r))]
        ELSE IF already_seen(st.seen_prefixes, key_of(p)) THEN continue_seen(st, r, p)
        ELSE LET f == find_matching_files_in_year(fs, ls, p.year, p.base_prefix)
                 s1 == [st EXCEPT !.seen_prefixes = seen_add(@, key_of(p)),
                                  !.calls = Append(@, <<p.year, p.base_prefix>>)]
             IN  IF f.raised # "none" THEN [s1 EXCEPT !.raised = f.raised]
                 ELSE IF no_matches(f.out)
                 THEN [s1 EXCEPT !.misses = append(@, resolve_miss(r, p))]
                 ELSE [s1 EXCEPT !.rows = append(@, linked_row(r, p, f.out, smap))]

\* the loop of lines 155-183; an exception ends it
RECURSIVE loop(_, _, _, _, _)
loop(st, todo, fs, ls, smap) ==
    IF todo = <<>> \/ st.raised # "none" THEN st
    ELSE loop(loop_body(st, Head(todo), fs, ls, smap), Tail(todo), fs, ls, smap)

\* OUT_MISSES_CSV before the first invocation: no file; writes counts how
\* often the file has been written
NoReport == [exists |-> FALSE, content |-> <<>>, writes |-> 0]

\* the test of line 186 left out: the report is written by every invocation
write_report_always(old, ms) ==
    [exists |-> TRUE, content |-> ms, writes |-> old.writes + 1]

\* lines 186-188: the report is written when the invocation has a Miss
write_report(old, ms) ==
    IF ms # <<>> THEN [exists |-> TRUE, content |-> ms, writes |-> old.writes + 1]
    ELSE old

\* the whole call: [rows, misses, calls, raised, report]
build_links_like_group(m, fs, ls, old) ==
    IF m = <<>>
    THEN [rows |-> <<>>, misses |-> <<>>, calls |-> <<>>, raised |-> "none",
          report |-> old]
    ELSE LET st == loop([rows |-> <<>>, misses |-> <<>>, seen_prefixes |-> {},
                         calls |-> <<>>, raised |-> "none"],
                        series_of(m), fs, ls, src_map_of(m))
         IN  [rows |-> IF st.raised = "none" THEN st.rows ELSE <<>>,
              misses |-> st.misses, calls |-> st.calls, raised |-> st.raised,
              report |-> IF st.raised = "none" THEN write_report(old, st.misses)
                         ELSE old]

----------------------------------------------------------------------------
(* _post_with_retries (catalog_generator.py) *)

MAX_RETRIES == 6

\* what one POST is answered with: an HTTP response with its status, its
\* Retry-After header ("" when the header is absent) and the document its
\* body encodes
Response(status, retry_after, json) ==
    [kind |-> "response", status |-> status, retry_after |-> retry_after,
     json |-> json]

NoJson == [id |-> 0]

\* requests.post raises a RequestException (no connection, timeout)
ConnectionError ==
    [kind |-> "exception", status |-> 0, retry_after |-> <<>>, json |-> NoJson]

\* float(text) returns for a decimal literal, with whitespace around it
\* allowed, and raises ValueError for any other text the inputs carry
float_parses(text) ==
    LET t == strip(text)
    IN  /\ \E i \in 1..Len(t) : IsDigit(t[i])
        /\ \A i \in 1..Len(t) : IsDigit(t[i]) \/ t[i] = "."
        /\ Cardinality({i \in 1..Len(t) : t[i] = "."}) <= 1

\* resp.raise_for_status() raises HTTPError, a RequestException
raise_for_status_raises(resp) == resp.status >= 400 /\ resp.status < 600

\* the body of the try of lines 161-169 on the answer resp: "return",
\* "retry" (429 or RequestException: sleep, next attempt), or the exception
\* that leaves the function
attempt_on(resp) ==
    IF resp.kind = "exception" THEN "retry"
    ELSE IF resp.status = 429
    THEN IF resp.retry_after # <<>> /\ ~float_parses(resp.retry_after)
         THEN "ValueError" ELSE "retry"
    ELSE IF raise_for_status_raises(resp) THEN "retry"
    ELSE "return"

NoPost == [posts |-> 0, outcome |-> "pending", json |-> NoJson]

\* the loop of lines 159-173 from iteration attempt on, line 174 after it
RECURSIVE attempts_from(_, _)
attempts_from(answers, attempt) ==
    IF attempt >= MAX_RETRIES
    THEN [posts |-> attempt, outcome |-> "RuntimeError", json |-> NoJson]
    ELSE LET resp == answers[attempt + 1]
             o == attempt_on(resp)
         IN  IF o = "return"
             THEN [posts |-> attempt + 1, outcome |-> "returned", json |-> resp.json]
             ELSE IF o = "retry" THEN attempts_from(answers, attempt + 1)
             ELSE [posts |-> attempt + 1, outcome |-> o, json |-> NoJson]

_post_with_retries(answers) == attempts_from(answers, 0)

----------------------------------------------------------------------------
(* The inputs the calls are checked on *)

\* '1-1997-1063-000.jpg'
File_A000 == <<"1", "-", "1", "9", "9", "7", "-", "1", "0", "6", "3", "-", "0", "0", "0", ".", "j", "p", "g">>

\* '1-1997-1063-001.JPG'
File_A001 == <<"1", "-", "1", "9", "9", "7", "-", "1", "0", "6", "3", "-", "0", "0", "1", ".", "J", "P", "G">>

\* '2-1997-9999-000.jpg'
File_Other == <<"2", "-", "1", "9", "9", "7", "-", "9", "9", "9", "9", "-", "0", "0", "0", ".", "j", "p", "g">>

\* 'x1-1997-1063-000.jpg'
File_MidName == <<"x", "1", "-", "1", "9", "9", "7", "-", "1", "0", "6", "3", "-", "0", "0", "0", ".", "j", "p", "g">>

\* '1-1997-1063-000.txt'
File_Text == <<"1", "-", "1", "9", "9", "7", "-", "1", "0", "6", "3", "-", "0", "0", "0", ".", "t", "x", "t">>

\* '1-1997-1063-7'
File_NoExt == <<"1", "-", "1", "9", "9", "7", "-", "1", "0", "6", "3", "-", "7">>

\* '1-1997-1063-9.jpg'
Dir_LikeImage == <<"1", "-", "1", "9", "9", "7", "-", "1", "0", "6", "3", "-", "9", ".", "j", "p", "g">>

\* 'sub'
Dir_Sub == <<"s", "u", "b">>

\* '2-1998-999-0.png'
File_B0 == <<"2", "-", "1", "9", "9", "8", "-", "9", "9", "9", "-", "0", ".", "p", "n", "g">>

\* '2-1998-999-1.png'
File_B1 == <<"2", "-", "1", "9", "9", "8", "-", "9", "9", "9", "-", "1", ".", "p", "n", "g">>

\* '1997'
Year1997 == <<"1", "9", "9", "7">>

\* '1998'
Year1998 == <<"1", "9", "9", "8">>

\* '1999'
Year1999 == <<"1", "9", "9", "9">>

\* '2-1999-9999-000.jpg'
File_D_Other == <<"2", "-", "1", "9", "9", "9", "-", "9", "9", "9", "9", "-", "0", "0", "0", ".", "j", "p", "g">>

\* '2001'
Year2001 == <<"2", "0", "0", "1">>

\* '1-1997-1063-'
Prefix_A == <<"1", "-", "1", "9", "9", "7", "-", "1", "0", "6", "3", "-">>

\* '2-1997-9999-'
Prefix_Other == <<"2", "-", "1", "9", "9", "7", "-", "9", "9", "9", "9", "-">>

\* 'X1-1997-'
Prefix_Upper == <<"X", "1", "-", "1", "9", "9", "7", "-">>

\* '1/1997/1063 0'
Id_A0 == <<"1", "/", "1", "9", "9", "7", "/", "1", "0", "6", "3", " ", "0">>

\* '1/1997/1063 2'
Id_A2 == <<"1", "/", "1", "9", "9", "7", "/", "1", "0", "6", "3", " ", "2">>

\* ' 1/1997/1063 0 '
Id_AUntrimmed == <<" ", "1", "/", "1", "9", "9", "7", "/", "1", "0", "6", "3", " ", "0", " ">>

\* '2/1998/999 0'
Id_B == <<"2", "/", "1", "9", "9", "8", "/", "9", "9", "9", " ", "0">>

\* '3/2001/050 0'
Id_C == <<"3", "/", "2", "0", "0", "1", "/", "0", "5", "0", " ", "0">>

\* '4/1999/100 1'
Id_D == <<"4", "/", "1", "9", "9", "9", "/", "1", "0", "0", " ", "1">>

\* 'no number'
Id_NoNumber == <<"n", "o", " ", "n", "u", "m", "b", "e", "r">>

\* ' '
Id_Blank == <<" ">>

\* 'AK.xls'
Src_AK == <<"A", "K", ".", "x", "l", "s">>

\* 'AEG.xls'
Src_AEG == <<"A", "E", "G", ".", "x", "l", "s">>

File(name) == [name |-> name, kind |-> "file", children |-> {}]

Dir(name, children) == [name |-> name, kind |-> "dir", children |-> children]

\* -- parse_object_number: a cell is composed of the pieces of the pattern,
\*    each piece well formed or not
Shapes ==
    [pre : {<<>>, <<"x">>, <<"9", " ">>},
     g : {Rep("7", n) : n \in 0..MaxGroupLen},
     slash1 : {<<"/">>, <<" ", "/", "\t">>, <<"-">>},
     y : {SubSeq(<<"1", "9", "9", "7", "5">>, 1, n) : n \in 3..5},
     slash2 : {<<"/">>, <<"/", " ">>, <<" ">>},
     q : {SubSeq(<<"1", "0", "6", "3", "4">>, 1, n) : n \in 2..5},
     gap : {<<>>, <<" ">>, <<"\t", " ">>},
     ser : {Rep("2", n) : n \in 0..MaxSeriesLen},
     post : {<<>>, <<" ", "x">>}]

Compose(sh) ==
    sh.pre \o sh.g \o sh.slash1 \o sh.y \o sh.slash2 \o sh.q \o sh.gap \o sh.ser
    \o sh.post

NoShape ==
    [pre |-> <<>>, g |-> <<>>, slash1 |-> <<>>, y |-> <<>>, slash2 |-> <<>>,
     q |-> <<>>, gap |-> <<>>, ser |-> <<>>, post |-> <<>>]

\* cells that are no text, and the empty text
OtherCells == {NaN, IntCell(5), StrCell(<<>>)}

\* -- find_matching_files_in_year: what the year directory may hold
Entries ==
    { File(File_A000), File(File_A001), File(File_Other), File(File_MidName),
      File(File_Text), File(File_NoExt), Dir(Dir_LikeImage, {File(File_A000)}),
      Dir(Dir_Sub, {File(File_A001)}) }

FindTrees ==
    {[kind |-> "missing", children |-> {}], [kind |-> "file", children |-> {}],
     [kind |-> "dir", children |-> {}],
     [kind |-> "dir", children |-> {File(Year1997)}]}
    \cup {[kind |-> "dir", children |-> {Dir(Year1997, es)}] :
            es \in {e \in SUBSET Entries : Cardinality(e) <= MaxEntries}}

FindYears == {Year1997, Year2001}

FindPrefixes == {Prefix_A, Prefix_Other, Prefix_Upper, <<>>}

\* -- build_links_like_group: the cells and labels of the table's rows, and
\*    the image tree
Cells ==
    { StrCell(Id_A0), StrCell(Id_A2), StrCell(Id_AUntrimmed), StrCell(Id_B),
      StrCell(Id_C), StrCell(Id_D), StrCell(Id_NoNumber), StrCell(Id_Blank),
      NaN, IntCell(5) }

Sources == {Src_AK, Src_AEG}

Tables ==
    UNION {[1..n -> {Row(c, s) : c \in Cells, s \in Sources}] : n \in 0..MaxRows}

ImageTree ==
    { Dir(Year1997, {File(File_A000), File(File_A001)}),
      Dir(Year1998, {File(File_B0), Dir(Dir_Sub, {File(File_B1)})}),
      Dir(Year1999, {File(File_D_Other)}) }

BuildTrees ==
    {[kind |-> "missing", children |-> {}], [kind |-> "file", children |-> {}],
     [kind |-> "dir", children |-> ImageTree]}

----------------------------------------------------------------------------
(* The calls *)

InitParse ==
    /\ pc = "parse"
    /\ \/ \E sh \in Shapes : shape = sh /\ raw = StrCell(Compose(sh))
       \/ \E c \in OtherCells : shape = NoShape /\ raw = c
    /\ parsed = None
    /\ images_root = [kind |-> "missing", children |-> {}]
    /\ year = <<>> /\ base_prefix = <<>> /\ found = <<>>
    /\ meta = <<>> /\ rows = <<>> /\ misses = <<>> /\ calls = <<>>
    /\ report = NoReport /\ listing = <<>> /\ raised = "none"
    /\ server = <<>> /\ post = NoPost

ParseObjectNumber ==
    /\ pc = "parse"
    /\ parsed' = parse_object_number(raw)
    /\ pc' = "parse_done"
    /\ UNCHANGED <<raw, shape, images_root, year, base_prefix, found, meta, rows,
                   misses, calls, report, listing, raised, server, post>>

NextParse == ParseObjectNumber

SpecParse == InitParse /\ [][NextParse]_vars

InitFind ==
    /\ pc = "find"
    /\ images_root \in FindTrees
    /\ year \in FindYears
    /\ base_prefix \in FindPrefixes
    /\ found = <<>>
    /\ raw = NaN /\ shape = NoShape /\ parsed = None
    /\ meta = <<>> /\ rows = <<>> /\ misses = <<>> /\ calls = <<>>
    /\ report = NoReport /\ listing = <<>> /\ raised = "none"
    /\ server = <<>> /\ post = NoPost

FindMatchingFilesInYear ==
    /\ pc = "find"
    /\ \E ls \in Listings(images_root) :
          \E f \in {find_matching_files_in_year(images_root, ls, year, base_prefix)} :
              found' = f.out /\ raised' = f.raised /\ listing' = ls
    /\ pc' = "find_done"
    /\ UNCHANGED <<raw, shape, parsed, images_root, year, base_prefix, meta, rows,
                   misses, calls, report, server, post>>

NextFind == FindMatchingFilesInYear

SpecFind == InitFind /\ [][NextFind]_vars

Init ==
    /\ pc = "build"
    /\ meta \in Tables
    /\ images_root \in BuildTrees
    /\ rows = <<>> /\ misses = <<>> /\ calls = <<>>
    /\ report = NoReport /\ listing = <<>> /\ raised = "none"
    /\ server = <<>> /\ post = NoPost
    /\ raw = NaN /\ shape = NoShape /\ parsed = None
    /\ year = <<>> /\ base_prefix = <<>> /\ found = <<>>

BuildLinksLikeGroup ==
    /\ pc = "build"
    /\ \E ls \in Listings(images_root) :
          \E b \in {build_links_like_group(meta, images_root, ls, report)} :
              /\ rows' = b.rows /\ misses' = b.misses /\ calls' = b.calls
              /\ report' = b.report /\ raised' = b.raised
    /\ pc' = "build_done"
    /\ UNCHANGED <<raw, shape, parsed, images_root, year, base_prefix, found, meta,
                   listing, server, post>>

Next == BuildLinksLikeGroup

Spec == Init /\ [][Next]_vars

\* -- a sequence of invocations on the same disk: the miss report of one
\*    invocation is there when the next one starts
RunCells == {StrCell(Id_A0), StrCell(Id_C), StrCell(Id_NoNumber)}

RunTables ==
    UNION {[1..n -> {Row(c, Src_AK) : c \in RunCells}] : n \in 0..MaxRows}

InitRuns ==
    /\ pc = "build"
    /\ meta \in RunTables
    /\ images_root \in BuildTrees
    /\ rows = <<>> /\ misses = <<>> /\ calls = <<>>
    /\ report = NoReport /\ listing = <<>> /\ raised = "none"
    /\ server = <<>> /\ post = NoPost
    /\ raw = NaN /\ shape = NoShape /\ parsed = None
    /\ year = <<>> /\ base_prefix = <<>> /\ found = <<>>

\* the script is run again on a newly loaded table; what the earlier
\* invocation returned is gone, the files on disk are as it left them
NextInvocation ==
    /\ pc = "build_done"
    /\ report.writes < MaxWrites
    /\ meta' \in RunTables
    /\ pc' = "build"
    /\ rows' = <<>> /\ misses' = <<>> /\ calls' = <<>>
    /\ raised' = "none"
    /\ UNCHANGED <<raw, shape, parsed, images_root, year, base_prefix, found, report,
                   listing, server, post>>

NextRuns == BuildLinksLikeGroup \/ NextInvocation

SpecRuns == InitRuns /\ [][NextRuns]_vars

\* -- _post_with_retries: the answers the server may give to one POST
\* '2'
RetryAfter_Seconds == <<"2">>

\* 'Sat, 01 Jan 2000 00:00:00 GMT'
RetryAfter_Date == <<"S", "a", "t", ",", " ", "0", "1", " ", "J", "a", "n", " ", "2", "0", "0", "0", " ", "0", "0", ":", "0", "0", ":", "0", "0", " ", "G", "M", "T">>

Answers ==
    { Response(200, <<>>, [id |-> 1]), Response(200, <<>>, [id |-> 2]),
      Response(429, <<>>, NoJson), Response(429, RetryAfter_Seconds, NoJson),
      Response(429, RetryAfter_Date, NoJson), Response(500, <<>>, NoJson),
      ConnectionError }

InitPost ==
    /\ pc = "post"
    /\ server \in [1..MAX_RETRIES -> Answers]
    /\ post = NoPost
    /\ raw = NaN /\ shape = NoShape /\ parsed = None
    /\ images_root = [kind |-> "missing", children |-> {}]
    /\ year = <<>> /\ base_prefix = <<>> /\ found = <<>>
    /\ meta = <<>> /\ rows = <<>> /\ misses = <<>> /\ calls = <<>>
    /\ report = NoReport /\ listing = <<>> /\ raised = "none"

PostWithRetries ==
    /\ pc = "post"
    /\ post' = _post_with_retries(server)
    /\ pc' = "post_done"
    /\ UNCHANGED <<raw, shape, parsed, images_root, year, base_prefix, found,
                   meta, rows, misses, calls, report, listing, server, raised>>

NextPost == PostWithRetries

SpecPost == InitPost /\ [][NextPost]_vars

\* the resolver called on its own and from the aggregator
InitResolve == InitFind \/ Init

NextResolve == FindMatchingFilesInYear \/ BuildLinksLikeGroup

SpecResolve == InitResolve /\ [][NextResolve]_vars

----------------------------------------------------------------------------
(* What the claims speak of, stated without the code's algorithms *)

Range(f) == {f[i] : i \in DOMAIN f}

NoDigit(s) == \A i \in 1..Len(s) : ~IsDigit(s[i])

AllSpace(s) == \A i \in 1..Len(s) : IsSpace(s[i])

\* one "/" with optional whitespace around it
SlashPiece(s) ==
    \E i \in 1..Len(s) :
        s[i] = "/" /\ \A j \in 1..Len(s) : j # i => IsSpace(s[j])

\* the cell reads  <text> g / yyyy / sss s <text>  with non-numeric text
WellFormed(sh) ==
    /\ NoDigit(sh.pre) /\ NoDigit(sh.post)
    /\ Len(sh.g) >= 1
    /\ SlashPiece(sh.slash1) /\ SlashPiece(sh.slash2)
    /\ Len(sh.y) = 4
    /\ Len(sh.q) \in {3, 4}
    /\ Len(sh.gap) >= 1 /\ AllSpace(sh.gap)
    /\ Len(sh.ser) >= 1

\* The pattern as a finite automaton.  State 0: before the group number;
\* 1: in the group number; 2: whitespace before the first slash; 3: after
\* the first slash; 4..7: one to four digits of the year; 8: whitespace
\* before the second slash; 9: after the second slash; 10..13: one to four
\* digits of the sequence number; 14: the whitespace after it; 15: a digit of
\* the series number has been read.
Delta(q, c) ==
    IF IsDigit(c)
    THEN CASE q \in {0, 1} -> {1}
           [] q = 3 -> {4}
           [] q \in {4, 5, 6} -> {q + 1}
           [] q = 9 -> {10}
           [] q \in {10, 11, 12} -> {q + 1}
           [] q = 14 -> {15}
           [] OTHER -> {}
    ELSE IF IsSpace(c)
    THEN CASE q \in {1, 2} -> {2}
           [] q = 3 -> {3}
           [] q \in {7, 8} -> {8}
           [] q = 9 -> {9}
           [] q \in {12, 13, 14} -> {14}
           [] OTHER -> {}
    ELSE IF c = "/"
    THEN CASE q \in {1, 2} -> {3}
           [] q \in {7, 8} -> {9}
           [] OTHER -> {}
    ELSE {}

\* the automaton, started anew at every position, reaches state 15
RECURSIVE Accepts(_, _, _)
Accepts(s, i, qs) ==
    IF 15 \in qs THEN TRUE
    ELSE IF i > Len(s) THEN FALSE
    ELSE Accepts(s, i + 1, UNION {Delta(q, s[i]) : q \in qs \cup {0}})

PatternOccurs(s) == Accepts(s, 1, {})

----------------------------------------------------------------------------
(* Claims about parse_object_number, checked under SpecParse *)

\* C1: for every cell that reads 'g / yyyy / sss s' (g one or more digits,
\* yyyy exactly 4 digits, sss 3 or 4 digits, s one or more digits, optional
\* whitespace around each '/', whitespace between sss and s), possibly
\* surrounded by non-numeric text, parse_object_number returns a key with
\* year = yyyy and base_prefix = 'g-yyyy-sss-'; the series is not in it.
C1_PrefixOfPattern ==
    (pc = "parse_done" /\ WellFormed(shape)) =>
        /\ parsed.ok
        /\ parsed.year = shape.y
        /\ parsed.base_prefix
             = shape.g \o <<"-">> \o shape.y \o <<"-">> \o shape.q \o <<"-">>

C1_Witness ==
    /\ pc = "parse_done" /\ WellFormed(shape) /\ parsed.ok
    /\ shape.pre = <<"x">> /\ shape.post # <<>>
    /\ Len(shape.g) = 2 /\ Len(shape.q) = 3 /\ Len(shape.slash1) = 3
    /\ Len(shape.ser) = 2

\* C2: parse_object_number returns None and does not raise for a cell that is
\* no text, is the empty text, or holds the pattern nowhere; it returns a key
\* exactly when the pattern occurs somewhere in the text.
C2_KeyIffPatternOccurs ==
    pc = "parse_done" =>
        /\ raised = "none"
        /\ parsed.ok <=> (raw.kind = "str" /\ PatternOccurs(raw.s))
        /\ ~parsed.ok => parsed = None

C2_Witness ==
    /\ pc = "parse_done" /\ raw.kind = "str" /\ ~parsed.ok
    /\ NoDigit(shape.pre) /\ Len(shape.g) >= 1 /\ SlashPiece(shape.slash1)
    /\ SlashPiece(shape.slash2) /\ Len(shape.y) = 5 /\ Len(shape.q) = 4
    /\ Len(shape.gap) = 1 /\ Len(shape.ser) = 1

----------------------------------------------------------------------------
(* Claims about find_matching_files_in_year, checked under SpecFind *)

\* the text from the last dot of a name on; none when the name has no dot or
\* nothing but dots before it
Extension(name) ==
    LET dots == {i \in 1..Len(name) : name[i] = "."}
    IN  IF dots # {} /\ \E i \in 1..(Max(dots) - 1) : name[i] # "."
        THEN SubSeq(name, Max(dots), Len(name)) ELSE <<>>

SameIgnoringCase(a, b) ==
    Len(a) = Len(b) /\ \A i \in 1..Len(a) : LowerChar(a[i]) = LowerChar(b[i])

\* the year directories of the tree fs named y
YearDirNodes(fs, y) ==
    IF fs.kind = "dir" THEN {d \in fs.children : d.name = y /\ d.kind = "dir"}
    ELSE {}

\* the entries of <root>/<y> that the resolver is to return for prefix bp
Qualifying(fs, y, bp) ==
    {c \in UNION {d.children : d \in YearDirNodes(fs, y)} :
        /\ c.kind = "file"
        /\ \E e \in ALLOWED_EXTS : SameIgnoringCase(Extension(c.name), e)
        /\ Len(bp) <= Len(c.name)
        /\ SameIgnoringCase(SubSeq(c.name, 1, Len(bp)), bp)}

PathOf(y, name) == IMAGE_DIR \o <<"/">> \o y \o <<"/">> \o name

\* the paths of the files one level further down, in subdirectories of <root>/<y>
NestedPaths(fs, y) ==
    UNION {{PathOf(y, c.name \o <<"/">> \o n.name) : n \in c.children} :
            c \in UNION {d.children : d \in YearDirNodes(fs, y)}}

\* C4: find_matching_files_in_year returns a path if and only if it is a
\* direct child of root/year that is a regular file, has an allowed extension
\* (compared ignoring case) and a name that starts with the prefix (compared
\* ignoring case); nested files, other extensions and names holding the
\* prefix only mid-name are never returned.
C4_ReturnsExactlyQualifying ==
    pc = "find_done" =>
        /\ raised = "none"
        /\ Range(found) = {PathOf(year, c.name) : c \in Qualifying(images_root, year, base_prefix)}
        /\ Range(found) \cap NestedPaths(images_root, year) = {}

C4_Witness ==
    /\ pc = "find_done" /\ base_prefix = Prefix_A /\ year = Year1997
    /\ found = <<PathOf(Year1997, File_A001)>>
    /\ Dir(Dir_LikeImage, {File(File_A000)})
         \in UNION {d.children : d \in images_root.children}

----------------------------------------------------------------------------
(* Claims about build_links_like_group, checked under Spec *)

\* a cell as the aggregator compares it: text without surrounding whitespace
Trimmed(c) == IF c.kind = "str" THEN StrCell(strip(c.s)) ELSE c

\* the (year, prefix) key of a cell that has one
KeyOfCell(c) ==
    LET p == parse_object_number(c) IN <<p.year, p.base_prefix>>

\* the rows of the table whose cell has a key
KeyedRows == {i \in 1..Len(meta) : parse_object_number(meta[i].obj_id_raw).ok}

RowsFor(K) == {k \in 1..Len(rows) : <<rows[k].year, rows[k].base_prefix>> = K}

ResolveMissesFor(K) ==
    {k \in 1..Len(misses) :
        /\ misses[k].reason = "Keine Dateien"
        /\ <<misses[k].year, misses[k].base_prefix>> = K}

PatternMissesFor(c) ==
    {k \in 1..Len(misses) :
        misses[k].reason = "Keine Objektnummer" /\ misses[k].obj_id_raw = c}

\* number of decimal digits s ends with
RECURSIVE TrailingDigits(_)
TrailingDigits(s) ==
    IF s # <<>> /\ IsDigit(s[Len(s)])
    THEN 1 + TrailingDigits(SubSeq(s, 1, Len(s) - 1)) ELSE 0

Stem(s) == SubSeq(s, 1, Len(s) - TrailingDigits(s))

\* two identifiers that differ in nothing but the series number they end with
SeriesVariants(a, b) ==
    /\ a # b
    /\ TrailingDigits(a) >= 1 /\ TrailingDigits(b) >= 1
    /\ Stem(a) = Stem(b)
    /\ Stem(a) # <<>> /\ IsSpace(Stem(a)[Len(Stem(a))])
    /\ PatternOccurs(a)

\* C3: when two or more distinct raw identifiers of the input differ only in
\* the trailing series number, the output holds exactly one outcome for their
\* shared (year, prefix) key: one LinkedGroup row when files match, otherwise
\* one resolve-Miss; never one per series variant.
C3_SeriesVariantsMerge ==
    pc = "build_done" =>
        \A i, j \in 1..Len(meta) :
            (/\ meta[i].obj_id_raw.kind = "str" /\ meta[j].obj_id_raw.kind = "str"
             /\ SeriesVariants(strip(meta[i].obj_id_raw.s), strip(meta[j].obj_id_raw.s)))
            => LET K == KeyOfCell(meta[i].obj_id_raw)
               IN  /\ KeyOfCell(meta[j].obj_id_raw) = K
                   /\ Cardinality(RowsFor(K)) + Cardinality(ResolveMissesFor(K)) = 1
                   /\ Cardinality(RowsFor(K)) = 1
                        <=> Qualifying(images_root, K[1], K[2]) # {}

C3_Witness ==
    /\ pc = "build_done" /\ images_root.kind = "dir"
    /\ meta = <<Row(StrCell(Id_A0), Src_AK), Row(StrCell(Id_A2), Src_AK)>>
    /\ Len(rows) = 1 /\ misses = <<>>

\* C5: when the image root is missing or is no directory, the run fails with
\* a configuration error surfaced to the caller; it is not turned into
\* per-record 'no files found' Misses.  (Stated for the runs that reach the
\* resolver: some cell has a key.)
C5_BadRootIsFatal ==
    (pc = "build_done" /\ images_root.kind # "dir" /\ KeyedRows # {}) =>
        /\ raised # "none"
        /\ \A k \in 1..Len(misses) : misses[k].reason # "Keine Dateien"

\* C6 as claimed: every cell for which parsing yields no key (absent, blank,
\* non-string, not matching) gives exactly one pattern-not-found Miss per
\* distinct trimmed value and no LinkedGroup, and the run does not raise.
C6_EveryKeylessCellIsAMiss ==
    pc = "build_done" =>
        /\ raised = "none"
        /\ \A i \in 1..Len(meta) :
              ~parse_object_number(meta[i].obj_id_raw).ok =>
                  /\ Cardinality(PatternMissesFor(Trimmed(meta[i].obj_id_raw))) = 1
                  /\ \A k \in 1..Len(rows) :
                        rows[k].obj_id_raw # Trimmed(meta[i].obj_id_raw)

\* the cells without a key that are present (not NaN/None)
KeylessPresent ==
    {i \in 1..Len(meta) :
        /\ meta[i].obj_id_raw.kind # "nan"
        /\ ~parse_object_number(meta[i].obj_id_raw).ok}

\* C6 as amended: every present cell (blank, non-string, not matching) for
\* which parsing yields no key gives exactly one pattern-not-found Miss per
\* distinct trimmed value and no LinkedGroup, the remaining rows are handled
\* and the run does not raise; an absent cell (NaN/None) is dropped and gives
\* no Miss.
C6_PresentKeylessCellIsAMiss ==
    pc = "build_done" =>
        /\ raised = "none"
        /\ \A i \in KeylessPresent :
              /\ Cardinality(PatternMissesFor(Trimmed(meta[i].obj_id_raw))) = 1
              /\ \A k \in 1..Len(rows) :
                    rows[k].obj_id_raw # Trimmed(meta[i].obj_id_raw)
        /\ Cardinality({k \in 1..Len(misses) : misses[k].reason = "Keine Objektnummer"})
             = Cardinality({Trimmed(meta[i].obj_id_raw) : i \in KeylessPresent})
        /\ \A k \in 1..Len(misses) : misses[k].obj_id_raw.kind # "nan"
        /\ \A i \in KeyedRows :
              RowsFor(KeyOfCell(meta[i].obj_id_raw)) # {}
              \/ ResolveMissesFor(KeyOfCell(meta[i].obj_id_raw)) # {}

C6_Witness ==
    /\ pc = "build_done" /\ Len(meta) = 2
    /\ meta[1].obj_id_raw = NaN /\ meta[2].obj_id_raw = StrCell(Id_Blank)
    /\ misses = <<parse_miss(StrCell(<<>>))>> /\ rows = <<>>

\* the labels a joined text lists
RECURSIVE SplitComma(_)
SplitComma(s) ==
    LET at == {i \in 1..(Len(s) - 1) : s[i] = "," /\ s[i + 1] = " "}
    IN  IF at = {} THEN {s}
        ELSE {SubSeq(s, 1, Min(at) - 1)}
             \cup SplitComma(SubSeq(s, Min(at) + 2, Len(s)))

\* C7: the source files of every LinkedGroup are exactly the source labels
\* of all input rows (duplicates, untrimmed variants and series variants
\* included) whose raw identifier parses to the group's (year, prefix) key,
\* whichever row became the representative.
C7_SourcesOfAllRows ==
    pc = "build_done" =>
        \A k \in 1..Len(rows) :
            SplitComma(rows[k].source_files)
              = {meta[i].source_file :
                    i \in {n \in KeyedRows :
                              KeyOfCell(meta[n].obj_id_raw)
                                = <<rows[k].year, rows[k].base_prefix>>}}

C7_Witness ==
    /\ pc = "build_done"
    /\ meta = <<Row(StrCell(Id_A2), Src_AK), Row(StrCell(Id_AUntrimmed), Src_AEG)>>
    /\ Len(rows) = 1
    /\ rows[1].obj_id_raw = StrCell(Id_A2)
    /\ rows[1].source_files = Src_AEG \o <<",", " ">> \o Src_AK

\* C8: every LinkedGroup has a non-empty file list and image_count equal to
\* its length, and every distinct parsed (year, prefix) key of the input ends
\* in exactly one of the two collections: a LinkedGroup if the resolver is to
\* return a file for it, otherwise a Miss carrying that year and prefix.
C8_LinkedOrMissed ==
    pc = "build_done" =>
        /\ \A k \in 1..Len(rows) :
              rows[k].images # <<>> /\ rows[k].image_count = Len(rows[k].images)
        /\ \A i \in KeyedRows :
              LET K == KeyOfCell(meta[i].obj_id_raw)
              IN  IF Qualifying(images_root, K[1], K[2]) # {}
                  THEN /\ Cardinality(RowsFor(K)) = 1
                       /\ ResolveMissesFor(K) = {}
                       /\ \A k \in RowsFor(K) :
                             Range(rows[k].images)
                               = {c.name : c \in Qualifying(images_root, K[1], K[2])}
                  ELSE /\ Cardinality(ResolveMissesFor(K)) = 1
                       /\ RowsFor(K) = {}

C8_Witness ==
    /\ pc = "build_done" /\ Len(rows) = 1 /\ Len(misses) = 1
    /\ rows[1].image_count = 2
    /\ misses[1].year = Year1999 /\ misses[1].base_prefix # <<>>

\* C10: within one invocation the resolver is called at most once per
\* distinct (year, lower-cased prefix) key, however many rows or series
\* variants map to the key.
C10_OneResolveCallPerKey ==
    pc = "build_done" =>
        \A a, b \in 1..Len(calls) :
            (calls[a][1] = calls[b][1] /\ lower(calls[a][2]) = lower(calls[b][2]))
            => a = b

C10_Witness ==
    /\ pc = "build_done" /\ Len(calls) = 1 /\ Len(meta) = 2
    /\ meta[1].obj_id_raw = StrCell(Id_AUntrimmed)
    /\ meta[2].obj_id_raw = StrCell(Id_A2)
    /\ calls[1] = <<Year1997, Prefix_A>>

\* the rows of the table whose cell has the key K
RowsOfKey(K) == {i \in KeyedRows : KeyOfCell(meta[i].obj_id_raw) = K}

\* the first row of the table, in input order, whose cell has the key K
KeyFirstRow(K) == Min(RowsOfKey(K))

\* C11: the representative identifier of every LinkedGroup and of every
\* resolve-Miss is the trimmed raw identifier of the row that, among all
\* input rows mapping to that (year, prefix) key, comes first in the original
\* input order; a later row with the same key never replaces it.
C11_FirstIdentifierRepresents ==
    pc = "build_done" =>
        /\ \A k \in 1..Len(rows) :
              LET from == RowsOfKey(<<rows[k].year, rows[k].base_prefix>>)
              IN  /\ from # {}
                  /\ rows[k].obj_id_raw = Trimmed(meta[Min(from)].obj_id_raw)
        /\ \A k \in 1..Len(misses) :
              misses[k].reason = "Keine Dateien" =>
                  LET from == RowsOfKey(<<misses[k].year, misses[k].base_prefix>>)
                  IN  /\ from # {}
                      /\ misses[k].obj_id_raw = Trimmed(meta[Min(from)].obj_id_raw)

C11_Witness ==
    /\ pc = "build_done" /\ images_root.kind = "dir"
    /\ meta = <<Row(StrCell(Id_AUntrimmed), Src_AK), Row(StrCell(Id_A2), Src_AEG)>>
    /\ Len(rows) = 1 /\ rows[1].obj_id_raw = StrCell(Id_A0)

\* the first row of the table, in input order, that the Miss m stands for
MissFirstRow(m) ==
    IF m.reason = "Keine Dateien" THEN KeyFirstRow(<<m.year, m.base_prefix>>)
    ELSE Min({i \in 1..Len(meta) : Trimmed(meta[i].obj_id_raw) = m.obj_id_raw})

\* C12: LinkedGroups are emitted in the order in which their keys were first
\* encountered in the input, and Misses likewise: when A is first encountered
\* before B and both land in the same output collection, A's entry precedes
\* B's.
C12_FirstEncounterOrder ==
    pc = "build_done" =>
        /\ \A a, b \in 1..Len(rows) :
              a < b => KeyFirstRow(<<rows[a].year, rows[a].base_prefix>>)
                         < KeyFirstRow(<<rows[b].year, rows[b].base_prefix>>)
        /\ \A a, b \in 1..Len(misses) :
              a < b => MissFirstRow(misses[a]) < MissFirstRow(misses[b])

C12_Witness ==
    /\ pc = "build_done"
    /\ meta = <<Row(StrCell(Id_B), Src_AK), Row(StrCell(Id_A0), Src_AK)>>
    /\ Len(rows) = 2 /\ rows[1].year = Year1998 /\ rows[2].year = Year1997

----------------------------------------------------------------------------
(* Claim about the resolver alone and within the aggregator, checked under  *)
(* SpecResolve                                                             *)

\* C9: find_matching_files_in_year returns an empty list and does not raise
\* whenever root/year does not exist or is no directory, for every year and
\* prefix; build_links_like_group then records the key as a Miss and does
\* not fail.
C9_AbsentYearIsEmpty ==
    /\ (pc = "find_done" /\ YearDirNodes(images_root, year) = {}) =>
          found = <<>> /\ raised = "none"
    /\ pc = "build_done" =>
          /\ raised = "none"
          /\ \A i \in KeyedRows :
                LET K == KeyOfCell(meta[i].obj_id_raw)
                IN  YearDirNodes(images_root, K[1]) = {} =>
                        /\ Cardinality(ResolveMissesFor(K)) = 1
                        /\ RowsFor(K) = {}

C9_Witness ==
    /\ pc = "build_done" /\ images_root.kind = "dir" /\ raised = "none"
    /\ Len(rows) = 1
    /\ misses = <<resolve_miss(StrCell(Id_C), parse_object_number(StrCell(Id_C)))>>

\* the sequence of texts is strictly ascending in code-point order
StrictlyAscending(seq) ==
    \A i, j \in 1..Len(seq) : i < j => LexLess(seq[i], seq[j])

\* C13: the list find_matching_files_in_year returns is sorted
\* lexicographically by full path and holds no path twice, whatever order
\* the directory listing yields its entries in; the basenames of a
\* LinkedGroup keep that order.
C13_SortedWhateverTheListing ==
    /\ pc = "find_done" => StrictlyAscending(found)
    /\ pc = "build_done" =>
          \A k \in 1..Len(rows) :
              StrictlyAscending([i \in 1..Len(rows[k].images) |->
                                    PathOf(rows[k].year, rows[k].images[i])])

C13_Witness ==
    /\ pc = "find_done" /\ year = Year1997 /\ base_prefix = Prefix_A
    /\ join(IMAGE_DIR, Year1997) \in DOMAIN listing
    /\ listing[join(IMAGE_DIR, Year1997)] = <<File_A001, File_A000>>
    /\ found = <<PathOf(Year1997, File_A000), PathOf(Year1997, File_A001)>>

----------------------------------------------------------------------------
(* Claim about the miss report over a sequence of invocations, checked     *)
(* under SpecRuns                                                          *)

\* C14: build_links_like_group writes the miss report file if and only if
\* the current invocation produced at least one Miss, and then with exactly
\* that invocation's Misses; an invocation that produces no Miss (including
\* one on empty input) leaves an already existing report file unchanged, so
\* the report on disk can belong to an earlier invocation.
C14_ReportIffMisses ==
    [][(pc = "build" /\ pc' = "build_done") =>
          IF misses' # <<>>
          THEN /\ report'.exists /\ report'.content = misses'
               /\ report'.writes = report.writes + 1
          ELSE report' = report]_vars

C14_Witness ==
    /\ pc = "build_done" /\ raised = "none"
    /\ rows # <<>> /\ misses = <<>>
    /\ report.exists /\ report.writes = 1
    /\ report.content = <<parse_miss(StrCell(Id_NoNumber))>>

----------------------------------------------------------------------------
(* Claim about _post_with_retries, checked under SpecPost *)

\* the attempts whose answer is neither an HTTP 429 nor a request exception
\* (an HTTP error status counts as a request exception)
Succeeding ==
    {i \in 1..MAX_RETRIES :
        /\ server[i].kind = "response"
        /\ server[i].status # 429
        /\ ~(server[i].status >= 400 /\ server[i].status < 600)}

\* C15: every call of _post_with_retries ends after at most MAX_RETRIES POST
\* attempts under any sequence of server answers: it returns the JSON body
\* of the first attempt that is neither an HTTP 429 nor a request exception,
\* makes no further attempt after it, and raises RuntimeError exactly when
\* all MAX_RETRIES attempts failed.
C15_ReturnsFirstSuccessOrRuntimeError ==
    pc = "post_done" =>
        /\ post.posts <= MAX_RETRIES
        /\ Succeeding # {} =>
              /\ post.outcome = "returned"
              /\ post.posts = Min(Succeeding)
              /\ post.json = server[Min(Succeeding)].json
        /\ Succeeding = {} =>
              post.outcome = "RuntimeError" /\ post.posts = MAX_RETRIES

====
